---- MODULE Spec2Model ----
(***************************************************************************)
(* A model of the CI automation scripts under .github/scripts.  Every      *)
(* script is an independent short-lived process, so every script has its   *)
(* own specification (SpecSize, SpecSlack, ...), in which the variables of  *)
(* the other scripts stay at their idle values.                            *)
(*                                                                         *)
(* Strings that the code takes apart (paths, glob patterns) are sequences   *)
(* of one-character strings; Python's None is the string "None".           *)
(***************************************************************************)
EXTENDS Integers, Sequences, FiniteSets, TLC

VARIABLES
  \* assign-size-label.py
  changed_lines, size_label, size_pc,
  \* assign-size-label.py: the pull request, the repository's labels, the run
  size_files, size_pr_labels, size_pr_labels0, size_repo_labels, labels_to_remove,
  size_exit,
  \* slack-notify.py
  workflows_json, REQUIRED_WORKFLOWS, event_ok, retries, fetches, checks_response,
  workflows, actions_finished, check_raised, slack_posts, slack_exit, slack_pc,
  \* stale-pr-checker.py: the repository as GitHub and Slack hold it
  created_at, pr_labels, pr_comments, pr_alerts, now,
  \* stale-pr-checker.py: the environment and the run
  stale_env_ok, stale_days, slack_webhook_url, stale_runs, pull_requests, stale_idx,
  run_requests, run_failure, stale_exit, stale_pc,
  \* stale-pr-checker.py: the runs so far, and a second run of the workflow
  failed_runs, overlapped, parked,
  \* auto-merge.py
  merge_repo, merge_pr_number, merge_labels, merge_reviews, labels_queried,
  reviews_queried, merge_requests, merge_exit, merge_pc,
  \* assign-labels.py
  changed_files, valid_labels, filter_data, assignees_map, labels, file_idx, yielded,
  common_assignees, path_assignees, labels_pc,
  \* assign-labels.py: the labels of the pull request and of the repository
  issue_labels, issue_labels0, current_labels, existing_labels, other_changes,
  labels_exit

sizeVars == <<changed_lines, size_label, size_pc, size_files, size_pr_labels,
              size_pr_labels0, size_repo_labels, labels_to_remove, size_exit>>
slackVars == <<workflows_json, REQUIRED_WORKFLOWS, event_ok, retries, fetches, checks_response,
               workflows, actions_finished, check_raised, slack_posts, slack_exit,
               slack_pc>>
repoVars == <<created_at, pr_labels, pr_comments, pr_alerts, now>>
staleVars == <<repoVars, stale_env_ok, stale_days, slack_webhook_url, stale_runs,
               pull_requests, stale_idx, run_requests, run_failure, stale_exit,
               stale_pc, failed_runs, overlapped, parked>>
mergeVars == <<merge_repo, merge_pr_number, merge_labels, merge_reviews, labels_queried,
               reviews_queried, merge_requests, merge_exit, merge_pc>>
labelVars == <<changed_files, valid_labels, filter_data, assignees_map, labels, file_idx,
               yielded, common_assignees, path_assignees, labels_pc, issue_labels,
               issue_labels0, current_labels, existing_labels, other_changes,
               labels_exit>>
vars == <<sizeVars, slackVars, staleVars, mergeVars, labelVars>>

None == "None"
\* Python's True and False where a variable also holds None
True == "True"
False == "False"

\* the sequences over S of length at most n
SeqsUpTo(S, n) == UNION {[1..k -> S] : k \in 0..n}

(***************************************************************************)
(* assign-size-label.py                                                    *)
(***************************************************************************)

\* float("inf"), the upper end of the XXL range
INF == -1

\* the largest changed-line count the model draws
MaxChangedLines == 1100

\* the dict keeps insertion order: XS, S, M, L, XL, XXL
size_labels ==
  << [label |-> "XS",  min |-> 0,    max |-> 20,   color |-> "388E3C"],
     [label |-> "S",   min |-> 20,   max |-> 50,   color |-> "4CAF50"],
     [label |-> "M",   min |-> 50,   max |-> 100,  color |-> "FFEB3B"],
     [label |-> "L",   min |-> 100,  max |-> 500,  color |-> "FF9800"],
     [label |-> "XL",  min |-> 500,  max |-> 1000, color |-> "F44336"],
     [label |-> "XXL", min |-> 1000, max |-> INF,  color |-> "B71C1C"] >>

\* a <= b where b may be float("inf")
LeqInf(a, b) == b = INF \/ a <= b

\* the test of line 35: min_lines <= changed_lines <= max_lines
InSizeRange(n, min_lines, max_lines) == min_lines <= n /\ LeqInf(n, max_lines)

\* the indices of the entries whose test n passes
SizeMatches(n) ==
  {i \in 1..Len(size_labels) :
     InSizeRange(n, size_labels[i].min, size_labels[i].max)}

Least(S) == CHOOSE i \in S : \A j \in S : i <= j

\* the for loop returns at the first entry whose test passes, None after the loop
determine_size_label(n) ==
  IF SizeMatches(n) = {} THEN None ELSE size_labels[Least(SizeMatches(n))].label

\* the keys of size_labels
SizeNames == {size_labels[i].label : i \in DOMAIN size_labels}

\* size_labels[label][1]
SizeColor(label) ==
  size_labels[CHOOSE i \in DOMAIN size_labels : size_labels[i].label = label].color

\* the most files the pull request of the model changes
MaxSizeFiles == 2

\* the additions and deletions GitHub reports for one changed file
FileStats == [additions : {0, 10, 600}, deletions : {0, 10, 400}]

\* the labels a pull request of the model may carry before the run
PRLabelNames == {"XS", "M", "XXL", "bug"}

\* repo.get_labels() as a map from each size label to its colour, None where
\* the repository has no such label: none exist, all exist with the colours
\* of the table, all exist with another colour
RepoLabelStates ==
  { [l \in SizeNames |-> None],
    [l \in SizeNames |-> SizeColor(l)],
    [l \in SizeNames |-> "ededed"] }

RECURSIVE SumLines(_)
\* sum(f.additions + f.deletions for f in files)
SumLines(files) ==
  IF files = <<>> THEN 0
  ELSE Head(files).additions + Head(files).deletions + SumLines(Tail(files))

\* the list comprehension with the test on size_labels left out
LabelsOtherThan(pr_label_names, correct_label) ==
  {l \in pr_label_names : l # correct_label}

\* the list comprehension of lines 41-45
LabelsToRemove(pr_label_names, correct_label) ==
  {l \in pr_label_names : l \in SizeNames /\ l # correct_label}

\* the pull request and the repository as the run finds them
SizeRepoInit ==
  /\ size_files \in SeqsUpTo(FileStats, MaxSizeFiles)
  /\ size_pr_labels \in SUBSET PRLabelNames
  /\ size_pr_labels0 = size_pr_labels
  /\ size_repo_labels \in RepoLabelStates
  /\ labels_to_remove = {}
  /\ size_exit = None

SizeRepoIdle ==
  /\ size_files = <<>>
  /\ size_pr_labels = {}
  /\ size_pr_labels0 = {}
  /\ size_repo_labels = [l \in SizeNames |-> None]
  /\ labels_to_remove = {}
  /\ size_exit = None

sizeRepoVars == <<size_files, size_pr_labels, size_pr_labels0, size_repo_labels,
                  labels_to_remove, size_exit>>

\* determine_size_label applied to any count
SizeInit ==
  /\ changed_lines \in 0..MaxChangedLines
  /\ size_label = None
  /\ size_pc = "start"
  /\ SizeRepoIdle

\* the script before get_changed_lines
SizeRunInit ==
  /\ changed_lines = 0
  /\ size_label = None
  /\ size_pc = "get_changed_lines"
  /\ SizeRepoInit

SizeIdle ==
  /\ changed_lines = 0
  /\ size_label = None
  /\ size_pc = "idle"
  /\ SizeRepoIdle

\* an exception nothing catches ends the process with status 1
SizeRaises ==
  /\ size_exit' = "1"
  /\ size_pc' = "done"

\* get_changed_lines, lines 25-29; ok is whether pr.get_files() answers
GetChangedLines(ok) ==
  /\ size_pc = "get_changed_lines"
  /\ IF ok
       THEN /\ changed_lines' = SumLines(size_files)
            /\ size_pc' = "start"
            /\ UNCHANGED size_exit
       ELSE SizeRaises /\ UNCHANGED changed_lines
  /\ UNCHANGED <<size_label, size_files, size_pr_labels, size_pr_labels0,
                 size_repo_labels, labels_to_remove>>

\* __main__, line 80
DetermineSizeLabel ==
  /\ size_pc = "start"
  /\ size_label' = determine_size_label(changed_lines)
  /\ size_pc' = "determined"
  /\ UNCHANGED <<changed_lines, sizeRepoVars>>

\* __main__, lines 82-86, and lines 41-45 of remove_existing_size_labels; ok is
\* whether pr.get_labels() answers
ListLabelsToRemove(ok) ==
  /\ size_pc = "determined"
  /\ IF size_label = None
       THEN /\ size_exit' = "0"
            /\ size_pc' = "done"
            /\ UNCHANGED labels_to_remove
       ELSE IF ok
         THEN /\ labels_to_remove' = LabelsToRemove(size_pr_labels, size_label)
              /\ size_pc' = "remove"
              /\ UNCHANGED size_exit
         ELSE SizeRaises /\ UNCHANGED labels_to_remove
  /\ UNCHANGED <<changed_lines, size_label, size_files, size_pr_labels,
                 size_pr_labels0, size_repo_labels>>

\* one turn of the loop of lines 46-48
RemoveFromLabels(label, ok) ==
  /\ size_pc = "remove"
  /\ label \in labels_to_remove
  /\ IF ok
       THEN /\ size_pr_labels' = size_pr_labels \ {label}
            /\ labels_to_remove' = labels_to_remove \ {label}
            /\ UNCHANGED <<size_exit, size_pc>>
       ELSE SizeRaises /\ UNCHANGED <<size_pr_labels, labels_to_remove>>
  /\ UNCHANGED <<changed_lines, size_label, size_files, size_pr_labels0,
                 size_repo_labels>>

\* assign_label, lines 52-61 and the tests of lines 64 and 68; ok is whether
\* repo.get_labels() and pr.get_labels() answer
ReadLabels(ok) ==
  /\ size_pc = "remove"
  /\ labels_to_remove = {}
  /\ IF ~ok THEN SizeRaises
     ELSE IF size_label \in size_pr_labels
       THEN size_exit' = "0" /\ size_pc' = "done"
       ELSE /\ size_pc' = IF size_repo_labels[size_label] = SizeColor(size_label)
                            THEN "add_to_labels" ELSE "repo_label"
            /\ UNCHANGED size_exit
  /\ UNCHANGED <<changed_lines, size_label, size_files, size_pr_labels,
                 size_pr_labels0, size_repo_labels, labels_to_remove>>

\* assign_label, lines 64-71: create_label, or edit where the colour differs
EnsureRepoLabel(ok) ==
  /\ size_pc = "repo_label"
  /\ IF ok
       THEN /\ size_repo_labels' =
                 [size_repo_labels EXCEPT ![size_label] = SizeColor(size_label)]
            /\ size_pc' = "add_to_labels"
            /\ UNCHANGED size_exit
       ELSE SizeRaises /\ UNCHANGED size_repo_labels
  /\ UNCHANGED <<changed_lines, size_label, size_files, size_pr_labels,
                 size_pr_labels0, labels_to_remove>>

\* assign_label, line 74, and the end of the script
AddToLabels(ok) ==
  /\ size_pc = "add_to_labels"
  /\ IF ok
       THEN /\ size_pr_labels' = size_pr_labels \cup {size_label}
            /\ size_exit' = "0"
            /\ size_pc' = "done"
       ELSE SizeRaises /\ UNCHANGED size_pr_labels
  /\ UNCHANGED <<changed_lines, size_label, size_files, size_pr_labels0,
                 size_repo_labels, labels_to_remove>>

(***************************************************************************)
(* slack-notify.py                                                         *)
(***************************************************************************)

max_retries == 120

\* the most check runs a response carries
MaxCheckRuns == 2

WorkflowNames == {"build", "test"}

\* a check run as the API reports it: a run that is not completed has no conclusion
CheckRuns ==
  [name : WorkflowNames, status : {"completed"}, conclusion : {"success", "failure"}]
    \cup [name : WorkflowNames, status : {"in_progress"}, conclusion : {None}]

\* the check_runs of a response: the loop of lines 130-140 reads name, status and
\* conclusion of every run once, in any order, so the list is kept as the set of them
CheckRunLists == {runs \in SUBSET CheckRuns : Cardinality(runs) <= MaxCheckRuns}

\* a response the code reads the body of, or an error response, whose body it never reads
Responses ==
  [status_code : {200}, check_runs : CheckRunLists]
    \cup [status_code : {500}, check_runs : {{}}]

NoResponse == [status_code |-> 0, check_runs |-> {}]

\* a poller that keeps the map of the poll before
KeptWorkflows(previous) == previous

\* line 128: the map every poll starts from
FreshWorkflows(previous) == [w \in REQUIRED_WORKFLOWS |-> FALSE]

\* lines 135-139
CheckSucceeded(check) ==
  /\ check.name \in REQUIRED_WORKFLOWS
  /\ check.status = "completed"
  /\ check.conclusion = "success"

\* lines 130-140: the map after the loop over check_runs
WorkflowsAfter(start, check_runs) ==
  [w \in DOMAIN start |->
     start[w] \/ \E check \in check_runs : check.name = w /\ CheckSucceeded(check)]

\* a test that wants at least one workflow in the map
AllTrueOfSome(map) == DOMAIN map # {} /\ \A w \in DOMAIN map : map[w]

\* line 142: all(workflows.values())
AllTrue(map) == \A w \in DOMAIN map : map[w]

\* a loop that makes one attempt too many
LoopConditionOffByOne(r) == r <= max_retries

\* line 115
LoopCondition(r) == r < max_retries

\* .github/workflows.json: missing, not JSON, or JSON with a list of required
\* workflows, which may be empty
WorkflowFiles ==
  [state : {"missing", "malformed"}, required_workflows : {{}}]
    \cup [state : {"loaded"}, required_workflows : SUBSET WorkflowNames]

\* lines 17-36: the list of the file, [] when the file is missing or is not JSON
load_required_workflows(file) ==
  IF file.state = "missing" THEN {}
  ELSE IF file.state = "malformed" THEN {}
  ELSE file.required_workflows

SlackInit ==
  /\ workflows_json \in WorkflowFiles
  /\ REQUIRED_WORKFLOWS = load_required_workflows(workflows_json)
  /\ event_ok \in BOOLEAN
  /\ retries = 0
  /\ fetches = 0
  /\ checks_response = NoResponse
  /\ workflows = [w \in REQUIRED_WORKFLOWS |-> FALSE]
  /\ actions_finished = None
  /\ check_raised = FALSE
  /\ slack_posts = 0
  /\ slack_exit = None
  /\ slack_pc = "main"

SlackIdle ==
  /\ workflows_json = [state |-> "missing", required_workflows |-> {}]
  /\ REQUIRED_WORKFLOWS = {}
  /\ event_ok = TRUE
  /\ retries = 0
  /\ fetches = 0
  /\ checks_response = NoResponse
  /\ workflows = [w \in {} |-> FALSE]
  /\ actions_finished = None
  /\ check_raised = FALSE
  /\ slack_posts = 0
  /\ slack_exit = None
  /\ slack_pc = "idle"

\* lines 249, 100-113: main calls check_actions_finished, which reads the event
EnterCheck ==
  /\ slack_pc = "main"
  /\ event_ok
  /\ slack_pc' = "loop"
  /\ retries' = 0
  /\ UNCHANGED <<workflows_json, REQUIRED_WORKFLOWS, event_ok, check_raised, fetches, checks_response, workflows,
                 actions_finished, slack_posts, slack_exit>>

\* lines 102-104, 152-154: a key missing from the event raises, and the except returns False
EventKeyError ==
  /\ slack_pc = "main"
  /\ ~event_ok
  /\ actions_finished' = False
  /\ check_raised' = TRUE
  /\ slack_pc' = "returned"
  /\ UNCHANGED <<workflows_json, REQUIRED_WORKFLOWS, event_ok, retries, fetches, checks_response,
                 workflows, slack_posts, slack_exit>>

\* lines 115-147: one iteration of the while loop, with its sleep
Poll(response) ==
  /\ slack_pc = "loop"
  /\ LoopCondition(retries)
  /\ retries' = retries + 1
  /\ fetches' = fetches + 1
  /\ checks_response' = response
  /\ IF response.status_code # 200
       THEN /\ UNCHANGED <<workflows, actions_finished, slack_pc>>
       ELSE /\ workflows' = WorkflowsAfter(FreshWorkflows(workflows), response.check_runs)
            /\ IF AllTrue(workflows')
                 THEN actions_finished' = True /\ slack_pc' = "returned"
                 ELSE UNCHANGED <<actions_finished, slack_pc>>
  /\ UNCHANGED <<workflows_json, REQUIRED_WORKFLOWS, event_ok, check_raised, slack_posts, slack_exit>>

\* lines 120, 127, 152-154: requests.get or .json() raises, and the except returns False
PollRaises ==
  /\ slack_pc = "loop"
  /\ LoopCondition(retries)
  /\ retries' = retries + 1
  /\ fetches' = fetches + 1
  /\ actions_finished' = False
  /\ check_raised' = TRUE
  /\ slack_pc' = "returned"
  /\ UNCHANGED <<workflows_json, REQUIRED_WORKFLOWS, event_ok, checks_response, workflows,
                 slack_posts, slack_exit>>

\* lines 149-150
MaxRetriesReached ==
  /\ slack_pc = "loop"
  /\ ~LoopCondition(retries)
  /\ actions_finished' = False
  /\ slack_pc' = "returned"
  /\ UNCHANGED <<workflows_json, REQUIRED_WORKFLOWS, event_ok, check_raised, retries, fetches, checks_response,
                 workflows, slack_posts, slack_exit>>

\* a main that tests the returned value against None
NotifyUnlessNone(finished) == finished # None

\* line 249: the branch main takes on the value check_actions_finished returned
NotifyBranch(finished) == finished = True

\* lines 249-253, 226-240: the webhook POST; a failing POST is caught and printed
SendSlackNotification ==
  /\ slack_pc = "returned"
  /\ NotifyBranch(actions_finished)
  /\ slack_posts' = slack_posts + 1
  /\ slack_exit' = "0"
  /\ slack_pc' = "done"
  /\ UNCHANGED <<workflows_json, REQUIRED_WORKFLOWS, event_ok, check_raised, retries, fetches, checks_response,
                 workflows, actions_finished>>

\* lines 254-256
AbortNotification ==
  /\ slack_pc = "returned"
  /\ ~NotifyBranch(actions_finished)
  /\ slack_exit' = "1"
  /\ slack_pc' = "done"
  /\ UNCHANGED <<workflows_json, REQUIRED_WORKFLOWS, event_ok, check_raised, retries, fetches, checks_response,
                 workflows, actions_finished, slack_posts>>

(***************************************************************************)
(* stale-pr-checker.py                                                     *)
(*                                                                         *)
(* Time is counted in ticks, DayLen ticks to the day.  The labels,         *)
(* comments and Slack alerts of a pull request live on GitHub and Slack    *)
(* and outlast a run; the checker may be run again when a run has ended.   *)
(***************************************************************************)

\* ticks per day
DayLen == 2

\* the clock stops after this many days
MaxDays == 4

\* the number of runs of the checker
MaxRuns == 2

\* STALE_DAYS defaults to "3" (line 36)
DefaultStaleDays == 3

StaleDaysValues == {2, DefaultStaleDays}

\* the open pull requests, in the order GET /pulls lists them
PullNumbers == {1, 2}

\* the labels a pull request may carry before the checker has run
LabelNames == {"stale", "Notified"}

\* line 168: (now - created_at).days, the whole days of a timedelta
Age(t, created) == (t - created) \div DayLen

\* a skip test that forgets the label
SkipByAgeOnly(pr_label_names, age) == age < stale_days

\* a skip test that wants more than stale_days days
SkipUpToThreshold(pr_label_names, age) == "stale" \in pr_label_names \/ age <= stale_days

\* line 171
ShouldSkip(pr_label_names, age) == "stale" \in pr_label_names \/ age < stale_days

\* a list of the open pull requests that leaves their labels out
OpenPullsUnlabelled ==
  [n \in PullNumbers |->
     [number |-> n, created_at |-> created_at[n], labels |-> {}]]

\* line 63: the JSON of GET /pulls?state=open, as GitHub holds it at that moment
OpenPulls ==
  [n \in PullNumbers |->
     [number |-> n, created_at |-> created_at[n], labels |-> pr_labels[n]]]

NoPulls == [n \in {} |-> [number |-> n, created_at |-> 0, labels |-> {}]]

\* the pull request the loop is at
CurrentPR == pull_requests[stale_idx]

\* what a run holds of its own: the time it read, the list it fetched, its place
\* in the list, the requests it has sent, the request that failed, its exit
\* status and its position in the code
RunState ==
  [now |-> now, pull_requests |-> pull_requests, stale_idx |-> stale_idx,
   run_requests |-> run_requests, run_failure |-> run_failure,
   stale_exit |-> stale_exit, stale_pc |-> stale_pc]

\* a process of the workflow that has not started
NotStarted(pc, t) ==
  [now |-> t, pull_requests |-> NoPulls, stale_idx |-> 0, run_requests |-> {},
   run_failure |-> <<>>, stale_exit |-> None, stale_pc |-> pc]

StaleInit ==
  /\ created_at \in [PullNumbers -> 0..DayLen]
  /\ pr_labels \in [PullNumbers -> SUBSET LabelNames]
  /\ pr_comments = [n \in PullNumbers |-> 0]
  /\ pr_alerts = [n \in PullNumbers |-> 0]
  /\ now = DayLen
  /\ stale_env_ok \in BOOLEAN
  /\ stale_days \in StaleDaysValues
  /\ slack_webhook_url \in BOOLEAN
  /\ stale_runs = 0
  /\ pull_requests = NoPulls
  /\ stale_idx = 0
  /\ run_requests = {}
  /\ run_failure = <<>>
  /\ stale_exit = None
  /\ stale_pc = "ended"
  /\ failed_runs = 0
  /\ overlapped = FALSE
  /\ parked = NotStarted("ended", DayLen)

\* the repository at the end of the clock, every pull request either as old as
\* the clock or opened this instant, when two processes of the workflow are due
StaleRaceInit ==
  /\ created_at \in [PullNumbers -> {0, MaxDays * DayLen}]
  /\ pr_labels \in [PullNumbers -> SUBSET {"stale"}]
  /\ pr_comments = [n \in PullNumbers |-> 0]
  /\ pr_alerts = [n \in PullNumbers |-> 0]
  /\ now = MaxDays * DayLen
  /\ stale_env_ok = TRUE
  /\ stale_days \in StaleDaysValues
  /\ slack_webhook_url \in BOOLEAN
  /\ stale_runs = 0
  /\ pull_requests = NoPulls
  /\ stale_idx = 0
  /\ run_requests = {}
  /\ run_failure = <<>>
  /\ stale_exit = None
  /\ stale_pc = "ended"
  /\ failed_runs = 0
  /\ overlapped = FALSE
  /\ parked = NotStarted("ended", MaxDays * DayLen)

StaleIdle ==
  /\ created_at = [n \in {} |-> 0]
  /\ pr_labels = [n \in {} |-> {}]
  /\ pr_comments = [n \in {} |-> 0]
  /\ pr_alerts = [n \in {} |-> 0]
  /\ now = 0
  /\ stale_env_ok = TRUE
  /\ stale_days = DefaultStaleDays
  /\ slack_webhook_url = FALSE
  /\ stale_runs = 0
  /\ pull_requests = NoPulls
  /\ stale_idx = 0
  /\ run_requests = {}
  /\ run_failure = <<>>
  /\ stale_exit = None
  /\ stale_pc = "idle"
  /\ failed_runs = 0
  /\ overlapped = FALSE
  /\ parked = NotStarted("idle", 0)

\* lines 191-194, 33-42: a run starts; without GITHUB_TOKEN or REPO __init__ raises
\* and main exits with 1.  The run overlaps another when that one has not ended.
StartRun ==
  /\ stale_pc = "ended"
  /\ stale_runs < MaxRuns
  /\ stale_runs' = stale_runs + 1
  /\ pull_requests' = NoPulls
  /\ stale_idx' = 0
  /\ run_requests' = {}
  /\ run_failure' = <<>>
  /\ IF stale_env_ok
       THEN /\ stale_pc' = "fetch" /\ stale_exit' = None
            /\ overlapped' = (overlapped \/ parked.stale_pc # "ended")
       ELSE /\ stale_pc' = "ended" /\ stale_exit' = "1"
            /\ UNCHANGED overlapped
  /\ UNCHANGED <<repoVars, stale_env_ok, stale_days, slack_webhook_url, failed_runs,
                 parked>>

\* lines 186-188: a RequestException ends the run with exit status 1
RunFails(request) ==
  /\ stale_exit' = "1"
  /\ stale_pc' = "ended"
  /\ run_failure' = request
  /\ failed_runs' = failed_runs + 1

\* the request went through
RunGoesOn == UNCHANGED <<stale_exit, run_failure, failed_runs>>

\* lines 160-161, 57-65: GET /pulls answers, and the run reads the clock, which has
\* moved on since the run before
FetchPulls(t) ==
  /\ stale_pc = "fetch"
  /\ t >= now
  /\ now' = t
  /\ pull_requests' = OpenPulls
  /\ stale_idx' = 1
  /\ stale_pc' = "loop"
  /\ RunGoesOn
  /\ UNCHANGED <<created_at, pr_labels, pr_comments, pr_alerts, stale_env_ok,
                 stale_days, slack_webhook_url, stale_runs, run_requests, overlapped,
                 parked>>

\* lines 62, 186-188: GET /pulls fails
FetchFails ==
  /\ stale_pc = "fetch"
  /\ RunFails(<<"pulls", 0>>)
  /\ UNCHANGED <<repoVars, stale_env_ok, stale_days, slack_webhook_url, stale_runs,
                 pull_requests, stale_idx, run_requests, overlapped, parked>>

\* lines 163-181: the head of one iteration
Visit ==
  /\ stale_pc = "loop"
  /\ stale_idx \in DOMAIN pull_requests
  /\ IF ShouldSkip(CurrentPR.labels, Age(now, CurrentPR.created_at))
       THEN stale_idx' = stale_idx + 1 /\ stale_pc' = "loop"
       ELSE stale_idx' = stale_idx /\ stale_pc' = "comment"
  /\ RunGoesOn
  /\ UNCHANGED <<repoVars, stale_env_ok, stale_days, slack_webhook_url, stale_runs,
                 pull_requests, run_requests, overlapped, parked>>

\* a comment POST whose response is not checked
PostCommentUnchecked(ok) ==
  /\ stale_pc = "comment"
  /\ run_requests' = run_requests \cup {<<"comment", CurrentPR.number>>}
  /\ pr_comments' = IF ok THEN [pr_comments EXCEPT ![CurrentPR.number] = @ + 1]
                    ELSE pr_comments
  /\ stale_pc' = "label"
  /\ RunGoesOn
  /\ UNCHANGED <<created_at, pr_labels, pr_alerts, now, stale_env_ok, stale_days,
                 slack_webhook_url, stale_runs, pull_requests, stale_idx, overlapped,
                 parked>>

\* lines 102-109: the comment POST
PostComment(ok) ==
  /\ stale_pc = "comment"
  /\ run_requests' = run_requests \cup {<<"comment", CurrentPR.number>>}
  /\ IF ok
       THEN /\ pr_comments' = [pr_comments EXCEPT ![CurrentPR.number] = @ + 1]
            /\ stale_pc' = "label"
            /\ RunGoesOn
       ELSE /\ RunFails(<<"comment", CurrentPR.number>>)
            /\ UNCHANGED pr_comments
  /\ UNCHANGED <<created_at, pr_labels, pr_alerts, now, stale_env_ok, stale_days,
                 slack_webhook_url, stale_runs, pull_requests, stale_idx, overlapped,
                 parked>>

\* lines 112-118: the label POST
PostLabel(ok) ==
  /\ stale_pc = "label"
  /\ run_requests' = run_requests \cup {<<"label", CurrentPR.number>>}
  /\ IF ok
       THEN /\ pr_labels' = [pr_labels EXCEPT ![CurrentPR.number] = @ \cup {"stale"}]
            /\ stale_pc' = "slack"
            /\ RunGoesOn
       ELSE /\ RunFails(<<"label", CurrentPR.number>>)
            /\ UNCHANGED pr_labels
  /\ UNCHANGED <<created_at, pr_comments, pr_alerts, now, stale_env_ok, stale_days,
                 slack_webhook_url, stale_runs, pull_requests, stale_idx, overlapped,
                 parked>>

\* lines 120-126: without a webhook URL nothing is sent
SkipSlack ==
  /\ stale_pc = "slack"
  /\ ~slack_webhook_url
  /\ stale_idx' = stale_idx + 1
  /\ stale_pc' = "loop"
  /\ RunGoesOn
  /\ UNCHANGED <<repoVars, stale_env_ok, stale_days, slack_webhook_url, stale_runs,
                 pull_requests, run_requests, overlapped, parked>>

\* a webhook POST whose failure is logged and the loop carried on
PostSlackLogged(ok) ==
  /\ stale_pc = "slack"
  /\ slack_webhook_url
  /\ run_requests' = run_requests \cup {<<"slack", CurrentPR.number>>}
  /\ pr_alerts' = IF ok THEN [pr_alerts EXCEPT ![CurrentPR.number] = @ + 1]
                  ELSE pr_alerts
  /\ run_failure' = IF ok THEN run_failure ELSE <<"slack", CurrentPR.number>>
  /\ stale_idx' = stale_idx + 1
  /\ stale_pc' = "loop"
  /\ UNCHANGED <<created_at, pr_labels, pr_comments, now, stale_env_ok, stale_days,
                 slack_webhook_url, stale_runs, pull_requests, stale_exit,
                 failed_runs, overlapped, parked>>

\* lines 128-152: the webhook POST
PostSlack(ok) ==
  /\ stale_pc = "slack"
  /\ slack_webhook_url
  /\ run_requests' = run_requests \cup {<<"slack", CurrentPR.number>>}
  /\ IF ok
       THEN /\ pr_alerts' = [pr_alerts EXCEPT ![CurrentPR.number] = @ + 1]
            /\ stale_idx' = stale_idx + 1
            /\ stale_pc' = "loop"
            /\ RunGoesOn
       ELSE /\ RunFails(<<"slack", CurrentPR.number>>)
            /\ UNCHANGED <<pr_alerts, stale_idx>>
  /\ UNCHANGED <<created_at, pr_labels, pr_comments, now, stale_env_ok, stale_days,
                 slack_webhook_url, stale_runs, pull_requests, overlapped, parked>>

\* line 163: the list is exhausted and main returns
RunEnds ==
  /\ stale_pc = "loop"
  /\ stale_idx \notin DOMAIN pull_requests
  /\ stale_exit' = "0"
  /\ stale_pc' = "ended"
  /\ UNCHANGED <<repoVars, stale_env_ok, stale_days, slack_webhook_url, stale_runs,
                 pull_requests, stale_idx, run_requests, run_failure, failed_runs,
                 overlapped, parked>>

\* the scheduler turns from one process of the workflow to the other: what the
\* running process holds is set aside and what the other holds is taken up
SwitchRun ==
  /\ parked' = RunState
  /\ now' = parked.now
  /\ pull_requests' = parked.pull_requests
  /\ stale_idx' = parked.stale_idx
  /\ run_requests' = parked.run_requests
  /\ run_failure' = parked.run_failure
  /\ stale_exit' = parked.stale_exit
  /\ stale_pc' = parked.stale_pc
  /\ UNCHANGED <<created_at, pr_labels, pr_comments, pr_alerts, stale_env_ok,
                 stale_days, slack_webhook_url, stale_runs, failed_runs, overlapped>>

(***************************************************************************)
(* auto-merge.py                                                           *)
(***************************************************************************)

\* the most reviews a pull request has
MaxReviews == 2

\* os.getenv gives None for an unset variable; a variable may be set but empty
EnvValues == {None, "", "set"}

MergeLabelNames == {"no-auto-merge", "bug"}

ReviewStates == {"APPROVED", "CHANGES_REQUESTED", "COMMENTED"}


\* Python's truth value of a string or None
Truthy(value) == value # None /\ value # ""

\* an approval test that wants every review to approve
AllApproved(reviews) == \A i \in DOMAIN reviews : reviews[i] = "APPROVED"

\* line 78: any(review["state"] == "APPROVED" ...)
is_pr_approved(reviews) == \E i \in DOMAIN reviews : reviews[i] = "APPROVED"

\* line 120
HasNoAutoMerge(pr_label_names) == "no-auto-merge" \in pr_label_names

MergeInit ==
  /\ merge_repo \in EnvValues
  /\ merge_pr_number \in EnvValues
  /\ merge_labels \in SUBSET MergeLabelNames
  /\ merge_reviews \in SeqsUpTo(ReviewStates, MaxReviews)
  /\ labels_queried = FALSE
  /\ reviews_queried = FALSE
  /\ merge_requests = 0
  /\ merge_exit = None
  /\ merge_pc = "main"

MergeIdle ==
  /\ merge_repo = None
  /\ merge_pr_number = None
  /\ merge_labels = {}
  /\ merge_reviews = <<>>
  /\ labels_queried = FALSE
  /\ reviews_queried = FALSE
  /\ merge_requests = 0
  /\ merge_exit = None
  /\ merge_pc = "idle"

\* an HTTP error raises out of main: the interpreter exits with status 1
MergeRaises ==
  /\ merge_exit' = "1"
  /\ merge_pc' = "done"

\* main returns: the interpreter exits with status 0
MergeReturns ==
  /\ merge_exit' = "0"
  /\ merge_pc' = "done"

\* lines 111-117
CheckInputs ==
  /\ merge_pc = "main"
  /\ IF ~Truthy(merge_repo) \/ ~Truthy(merge_pr_number)
       THEN MergeReturns
       ELSE merge_pc' = "labels" /\ UNCHANGED merge_exit
  /\ UNCHANGED <<merge_repo, merge_pr_number, merge_labels, merge_reviews,
                 labels_queried, reviews_queried, merge_requests>>

\* lines 120-122, 39-57: GET the labels
GetLabels(ok) ==
  /\ merge_pc = "labels"
  /\ labels_queried' = TRUE
  /\ IF ~ok THEN MergeRaises
     ELSE IF HasNoAutoMerge(merge_labels) THEN MergeReturns
     ELSE merge_pc' = "reviews" /\ UNCHANGED merge_exit
  /\ UNCHANGED <<merge_repo, merge_pr_number, merge_labels, merge_reviews,
                 reviews_queried, merge_requests>>

\* lines 125-127, 60-78: GET the reviews
GetReviews(ok) ==
  /\ merge_pc = "reviews"
  /\ reviews_queried' = TRUE
  /\ IF ~ok THEN MergeRaises
     ELSE IF ~is_pr_approved(merge_reviews) THEN MergeReturns
     ELSE merge_pc' = "merge" /\ UNCHANGED merge_exit
  /\ UNCHANGED <<merge_repo, merge_pr_number, merge_labels, merge_reviews,
                 labels_queried, merge_requests>>

\* lines 130, 81-97: PUT the merge
EnableAutoMerge(ok) ==
  /\ merge_pc = "merge"
  /\ merge_requests' = merge_requests + 1
  /\ IF ok THEN MergeReturns ELSE MergeRaises
  /\ UNCHANGED <<merge_repo, merge_pr_number, merge_labels, merge_reviews,
                 labels_queried, reviews_queried>>

(***************************************************************************)
(* assign-labels.py                                                        *)
(*                                                                         *)
(* Paths, patterns, labels and handles are sequences of characters.  A     *)
(* value that may be None is a sequence of at most one element: <<>> is    *)
(* None and <<v>> is v.                                                    *)
(***************************************************************************)

\* the most changed files of a pull request
MaxFiles == 2

\* the most entries of filters.yml
MaxFilters == 2

\* the changed files: s/x, s/t/x, d/y and y
Files ==
  { <<"s", "/", "x">>, <<"s", "/", "t", "/", "x">>, <<"d", "/", "y">>, <<"y">> }

\* the paths CODEOWNERS may name: s, s/t, d, y and *
OwnerPaths == { <<"s">>, <<"s", "/", "t">>, <<"d">>, <<"y">>, <<"*">> }

\* the owners CODEOWNERS may give a path: @A @B, @B @C or @C
AssigneeLists ==
  { << <<"@", "A">>, <<"@", "B">> >>, << <<"@", "B">>, <<"@", "C">> >>,
    << <<"@", "C">> >> }

\* the entries filters.yml may hold, a list of patterns or a single pattern each:
\* f: [s/*]   g: *x   f: [d/?, y]   g: s/t/*   d: d/*
FilterEntries ==
  { [label |-> <<"f">>, patterns |-> << <<"s", "/", "*">> >>, is_list |-> TRUE],
    [label |-> <<"g">>, patterns |-> << <<"*", "x">> >>, is_list |-> FALSE],
    [label |-> <<"f">>, patterns |-> << <<"d", "/", "?">>, <<"y">> >>, is_list |-> TRUE],
    [label |-> <<"g">>, patterns |-> << <<"s", "/", "t", "/", "*">> >>, is_list |-> FALSE],
    [label |-> <<"d">>, patterns |-> << <<"d", "/", "*">> >>, is_list |-> FALSE] }

\* a dict has every key once
FilterTables ==
  {table \in SeqsUpTo(FilterEntries, MaxFilters) :
     \A i, j \in DOMAIN table : i # j => table[i].label # table[j].label}

\* every partial mapping of CODEOWNERS paths to owners
AssigneeMaps ==
  UNION {[paths -> AssigneeLists] : paths \in SUBSET OwnerPaths}

Max(S) == CHOOSE i \in S : \A j \in S : j <= i

\* str.split("/")
RECURSIVE Split(_)
Split(str) ==
  LET slashes == {k \in DOMAIN str : str[k] = "/"}
  IN  IF slashes = {}
        THEN <<str>>
        ELSE LET k == Least(slashes)
             IN  <<SubSeq(str, 1, k - 1)>> \o Split(SubSeq(str, k + 1, Len(str)))

\* "/".join(parts)
RECURSIVE Join(_)
Join(parts) ==
  IF parts = <<>> THEN <<>>
  ELSE IF Len(parts) = 1 THEN parts[1]
  ELSE parts[1] \o <<"/">> \o Join(Tail(parts))

\* str.lstrip("@")
RECURSIVE Lstrip(_)
Lstrip(str) == IF str # <<>> /\ Head(str) = "@" THEN Lstrip(Tail(str)) ELSE str

\* fnmatch.fnmatch(name, pattern): * matches any run of characters, the slash
\* too, ? matches one character, any other character matches itself
RECURSIVE fnmatch(_, _)
fnmatch(name, pattern) ==
  IF pattern = <<>> THEN name = <<>>
  ELSE IF Head(pattern) = "*"
    THEN fnmatch(name, Tail(pattern)) \/ (name # <<>> /\ fnmatch(Tail(name), pattern))
  ELSE /\ name # <<>>
       /\ Head(pattern) = "?" \/ Head(pattern) = Head(name)
       /\ fnmatch(Tail(name), Tail(pattern))

\* lines 97-102: some pattern of the entry matches the file
EntryMatches(file, entry) ==
  IF entry.is_list
    THEN \E k \in DOMAIN entry.patterns : fnmatch(file, entry.patterns[k])
    ELSE fnmatch(file, entry.patterns[1])

\* a lookup that reads only the entries that hold a list of patterns
get_label_from_lists(file, table) ==
  LET hits == {i \in DOMAIN table : table[i].is_list /\ EntryMatches(file, table[i])}
  IN  IF hits = {} THEN <<>> ELSE <<table[Least(hits)].label>>

\* a lookup that lets a later entry of the table overrule an earlier one
get_label_of_last_entry(file, table) ==
  LET hits == {i \in DOMAIN table : EntryMatches(file, table[i])}
  IN  IF hits = {} THEN <<>> ELSE <<table[Max(hits)].label>>

\* lines 94-103: the label of the first entry one of whose patterns matches, or None
get_label_for_file(file, table) ==
  LET hits == {i \in DOMAIN table : EntryMatches(file, table[i])}
  IN  IF hits = {} THEN <<>> ELSE <<table[Least(hits)].label>>

\* line 119: the truth value of special_label
IsSet(optional) == optional # <<>> /\ optional[1] # <<>>

\* a scan of the prefixes from the shortest to the longest
ShortestOwnersLabel(file, paths) ==
  LET parts == Split(file)
      hits == {i \in 1..Len(parts) : Join(SubSeq(parts, 1, i)) \in paths}
  IN  IF hits = {} THEN <<>> ELSE <<Join(SubSeq(parts, 1, Least(hits)))>>

\* lines 125-131: the longest prefix of the path, in whole segments, that is a
\* CODEOWNERS path, or None
OwnersLabel(file, paths) ==
  LET parts == Split(file)
      hits == {i \in 1..Len(parts) : Join(SubSeq(parts, 1, i)) \in paths}
  IN  IF hits = {} THEN <<>> ELSE <<Join(SubSeq(parts, 1, Max(hits)))>>

\* set(assignee.lstrip("@") for assignee in owners)
Handles(owners) == {Lstrip(owners[k]) : k \in DOMAIN owners}

\* a lookup that tries the directories from the least to the most specific
get_assignees_least_specific(file_path, map) ==
  LET parts == Split(file_path)
      hits == {i \in 1..Len(parts) : Join(SubSeq(parts, 1, i)) \in DOMAIN map}
  IN  IF file_path \in DOMAIN map THEN Handles(map[file_path])
      ELSE IF hits # {} THEN Handles(map[Join(SubSeq(parts, 1, Least(hits)))])
      ELSE IF <<"*">> \in DOMAIN map THEN Handles(map[<<"*">>])
      ELSE {}

\* lines 153-176
get_assignees_for_path(file_path, map) ==
  LET parts == Split(file_path)
      hits == {i \in 1..Len(parts) : Join(SubSeq(parts, 1, i)) \in DOMAIN map}
  IN  IF file_path \in DOMAIN map THEN Handles(map[file_path])
      ELSE IF hits # {} THEN Handles(map[Join(SubSeq(parts, 1, Max(hits)))])
      ELSE IF <<"*">> \in DOMAIN map THEN Handles(map[<<"*">>])
      ELSE {}

\* a loop that gathers the owners of every file
UnionUpdate(common, file_assignees) == common \cup file_assignees

\* line 193: common_assignees.intersection_update(file_assignees)
IntersectionUpdate(common, file_assignees) == common \cap file_assignees

\* lines 191-195: the loop over changed_files[1:], from the k-th file on, which
\* breaks when nothing is common any more
RECURSIVE IntersectFrom(_, _, _, _)
IntersectFrom(common, files, k, map) ==
  IF k > Len(files) THEN common
  ELSE LET narrowed == IntersectionUpdate(common, get_assignees_for_path(files[k], map))
       IN  IF narrowed = {} THEN narrowed ELSE IntersectFrom(narrowed, files, k + 1, map)

\* lines 191-195: what get_assignees_for_path returns to the loop, call by call
RECURSIVE CallsFrom(_, _, _, _)
CallsFrom(common, files, k, map) ==
  IF k > Len(files) THEN <<>>
  ELSE LET file_set == get_assignees_for_path(files[k], map)
           narrowed == IntersectionUpdate(common, file_set)
       IN  <<file_set>> \o
             (IF narrowed = {} THEN <<>> ELSE CallsFrom(narrowed, files, k + 1, map))

\* lines 188-195: the calls of get_assignees_for_path, the first file's at the head
AssigneeCalls(files, map) ==
  IF files = <<>> THEN <<>>
  ELSE <<get_assignees_for_path(files[1], map)>> \o
         CallsFrom(get_assignees_for_path(files[1], map), files, 2, map)

\* lines 199-201: every handle of the mapping
AllAssignees(map) == UNION {Handles(map[path]) : path \in DOMAIN map}

\* lines 179-208
find_common_assignees(files, map) ==
  IF files = <<>> THEN {}
  ELSE LET common == IntersectFrom(get_assignees_for_path(files[1], map), files, 2, map)
       IN  IF common = {} /\ AllAssignees(map) # {} THEN AllAssignees(map) ELSE common

issueVars == <<issue_labels, issue_labels0, current_labels, existing_labels,
               other_changes, labels_exit>>

\* the pull request's labels play no part
NoIssue ==
  /\ issue_labels = {}
  /\ issue_labels0 = {}
  /\ current_labels = {}
  /\ existing_labels = {}
  /\ other_changes = 0
  /\ labels_exit = None

LabelsIdle ==
  /\ changed_files = <<>>
  /\ valid_labels = {}
  /\ filter_data = <<>>
  /\ assignees_map = <<>>
  /\ labels = {}
  /\ file_idx = 0
  /\ yielded = <<>>
  /\ common_assignees = {}
  /\ path_assignees = <<>>
  /\ NoIssue
  /\ labels_pc = "idle"

\* lines 251-255, 112: main has read CODEOWNERS, filters.yml and the changed files
LabelsInit ==
  /\ changed_files \in SeqsUpTo(Files, MaxFiles)
  /\ valid_labels \in SUBSET OwnerPaths
  /\ filter_data \in FilterTables
  /\ assignees_map = <<>>
  /\ labels = {}
  /\ file_idx = 1
  /\ yielded = <<>>
  /\ common_assignees = {}
  /\ path_assignees = <<>>
  /\ NoIssue
  /\ labels_pc = "process_files"

\* lines 114-131: one iteration of the loop of process_files; yielded records what
\* the file gave: the label of filters.yml, the CODEOWNERS path, or nothing
ProcessFile ==
  /\ labels_pc = "process_files"
  /\ file_idx \in DOMAIN changed_files
  /\ LET file == changed_files[file_idx]
         special_label == get_label_for_file(file, filter_data)
         possible_label == OwnersLabel(file, valid_labels)
     IN  IF IsSet(special_label)
           THEN /\ labels' = {special_label[1]}
                /\ yielded' = Append(yielded, [from |-> "filters", label |-> special_label])
                /\ labels_pc' = "returned"
                /\ UNCHANGED file_idx
           ELSE /\ labels' = labels \cup {possible_label[k] : k \in DOMAIN possible_label}
                /\ yielded' = Append(yielded, [from |-> "CODEOWNERS", label |-> possible_label])
                /\ file_idx' = file_idx + 1
                /\ UNCHANGED labels_pc
  /\ UNCHANGED <<changed_files, valid_labels, filter_data, assignees_map,
                 common_assignees, path_assignees, issueVars>>

\* line 133: the loop is over
ReturnLabels ==
  /\ labels_pc = "process_files"
  /\ file_idx \notin DOMAIN changed_files
  /\ labels_pc' = "returned"
  /\ UNCHANGED <<changed_files, valid_labels, filter_data, assignees_map, labels,
                 file_idx, yielded, common_assignees, path_assignees, issueVars>>

\* lines 251-255: main has read CODEOWNERS and the changed files
AssignInit ==
  /\ changed_files \in SeqsUpTo(Files, MaxFiles)
  /\ assignees_map \in AssigneeMaps
  /\ valid_labels = DOMAIN assignees_map
  /\ filter_data = <<>>
  /\ labels = {}
  /\ file_idx = 0
  /\ yielded = <<>>
  /\ common_assignees = {}
  /\ path_assignees = <<>>
  /\ NoIssue
  /\ labels_pc = "find_common_assignees"

\* line 268; path_assignees records what the calls of get_assignees_for_path gave
FindCommonAssignees ==
  /\ labels_pc = "find_common_assignees"
  /\ common_assignees' = find_common_assignees(changed_files, assignees_map)
  /\ path_assignees' = AssigneeCalls(changed_files, assignees_map)
  /\ labels_pc' = "found"
  /\ UNCHANGED <<changed_files, valid_labels, filter_data, assignees_map, labels,
                 file_idx, yielded, issueVars>>

\* the most changes others make to the labels of the pull request during a run
MaxOtherChanges == 1

\* the labels the pull request may carry before the run: s and bug
IssueLabelNames == { <<"s">>, <<"b", "u", "g">> }

\* the labels another workflow or a person may add or remove meanwhile: XS and bug
OtherLabelNames == { <<"X", "S">>, <<"b", "u", "g">> }

\* the labels the repository may have before the run: s and f
RepoLabelNames == { <<"s">>, <<"f">> }

\* a list of new labels that leaves the current ones out
ResolvedOnly(current, resolved) == resolved

\* line 216: list(set(current_labels + list(labels)))
NewLabels(current, resolved) == current \cup resolved

\* lines 251-255: main has read CODEOWNERS, filters.yml and the changed files of
\* a pull request that carries labels
ApplyInit ==
  /\ changed_files \in SeqsUpTo(Files, MaxFiles)
  /\ valid_labels \in {{}, OwnerPaths}
  /\ filter_data \in {table \in FilterTables : Len(table) <= 1}
  /\ assignees_map = <<>>
  /\ labels = {}
  /\ file_idx = 1
  /\ yielded = <<>>
  /\ common_assignees = {}
  /\ path_assignees = <<>>
  /\ issue_labels \in SUBSET IssueLabelNames
  /\ issue_labels0 = issue_labels
  /\ current_labels = {}
  /\ existing_labels \in SUBSET RepoLabelNames
  /\ other_changes = 0
  /\ labels_exit = None
  /\ labels_pc = "process_files"

\* lines 275-277: main prints and raises again; the interpreter exits with status 1
LabelsRaise ==
  /\ labels_exit' = "1"
  /\ labels_pc' = "raised"

\* lines 260-265, 136-150: without labels nothing is applied; else create_labels
\* creates the labels the repository lacks, and a label that cannot be created
\* is printed and passed over; ok is whether repo.get_labels() answers
CreateLabels(ok, failed) ==
  /\ labels_pc = "returned"
  /\ failed \subseteq labels \ existing_labels
  /\ IF labels = {}
       THEN /\ labels_pc' = "labelled"
            /\ UNCHANGED <<existing_labels, labels_exit>>
       ELSE IF ok
         THEN /\ existing_labels' = existing_labels \cup (labels \ failed)
              /\ labels_pc' = "apply_labels"
              /\ UNCHANGED labels_exit
         ELSE LabelsRaise /\ UNCHANGED existing_labels
  /\ UNCHANGED <<changed_files, valid_labels, filter_data, assignees_map, labels,
                 file_idx, yielded, common_assignees, path_assignees, issue_labels,
                 issue_labels0, current_labels, other_changes>>

\* lines 214-215: the labels of the issue as GitHub holds them now
GetIssue(ok) ==
  /\ labels_pc = "apply_labels"
  /\ IF ok
       THEN /\ current_labels' = issue_labels
            /\ labels_pc' = "set_labels"
            /\ UNCHANGED labels_exit
       ELSE LabelsRaise /\ UNCHANGED current_labels
  /\ UNCHANGED <<changed_files, valid_labels, filter_data, assignees_map, labels,
                 file_idx, yielded, common_assignees, path_assignees, issue_labels,
                 issue_labels0, existing_labels, other_changes>>

\* lines 216-220: set_labels puts the new list in the place of the labels of the issue
SetLabels(ok) ==
  /\ labels_pc = "set_labels"
  /\ IF ok
       THEN /\ issue_labels' = NewLabels(current_labels, labels)
            /\ labels_pc' = "labelled"
            /\ UNCHANGED labels_exit
       ELSE LabelsRaise /\ UNCHANGED issue_labels
  /\ UNCHANGED <<changed_files, valid_labels, filter_data, assignees_map, labels,
                 file_idx, yielded, common_assignees, path_assignees, issue_labels0,
                 current_labels, existing_labels, other_changes>>

\* while apply_labels is at work another workflow on the same pull request (the
\* size labeler's add_to_labels and remove_from_labels) or a person adds or
\* removes a label
OtherLabeler(label, add) ==
  /\ labels_pc \in {"apply_labels", "set_labels"}
  /\ other_changes < MaxOtherChanges
  /\ other_changes' = other_changes + 1
  /\ issue_labels' = IF add THEN issue_labels \cup {label} ELSE issue_labels \ {label}
  /\ issue_labels' # issue_labels
  /\ UNCHANGED <<changed_files, valid_labels, filter_data, assignees_map, labels,
                 file_idx, yielded, common_assignees, path_assignees, issue_labels0,
                 current_labels, existing_labels, labels_exit, labels_pc>>

(***************************************************************************)
(* The specifications                                                      *)
(***************************************************************************)

notSize == <<slackVars, staleVars, mergeVars, labelVars>>
notSlack == <<sizeVars, staleVars, mergeVars, labelVars>>
notStale == <<sizeVars, slackVars, mergeVars, labelVars>>
notMerge == <<sizeVars, slackVars, staleVars, labelVars>>
notLabels == <<sizeVars, slackVars, staleVars, mergeVars>>

InitSize == SizeInit /\ SlackIdle /\ StaleIdle /\ MergeIdle /\ LabelsIdle
NextSize ==
  \/ DetermineSizeLabel /\ UNCHANGED notSize
SpecSize == InitSize /\ [][NextSize]_vars

InitSizeRun == SizeRunInit /\ SlackIdle /\ StaleIdle /\ MergeIdle /\ LabelsIdle
NextSizeRun ==
  \/ \E ok \in BOOLEAN : GetChangedLines(ok) /\ UNCHANGED notSize
  \/ DetermineSizeLabel /\ UNCHANGED notSize
  \/ \E ok \in BOOLEAN : ListLabelsToRemove(ok) /\ UNCHANGED notSize
  \/ \E label \in labels_to_remove, ok \in BOOLEAN :
       RemoveFromLabels(label, ok) /\ UNCHANGED notSize
  \/ \E ok \in BOOLEAN : ReadLabels(ok) /\ UNCHANGED notSize
  \/ \E ok \in BOOLEAN : EnsureRepoLabel(ok) /\ UNCHANGED notSize
  \/ \E ok \in BOOLEAN : AddToLabels(ok) /\ UNCHANGED notSize
SpecSizeRun == InitSizeRun /\ [][NextSizeRun]_vars

InitSlack == SlackInit /\ SizeIdle /\ StaleIdle /\ MergeIdle /\ LabelsIdle
NextSlack ==
  \/ EnterCheck /\ UNCHANGED notSlack
  \/ EventKeyError /\ UNCHANGED notSlack
  \/ \E response \in Responses : Poll(response) /\ UNCHANGED notSlack
  \/ PollRaises /\ UNCHANGED notSlack
  \/ MaxRetriesReached /\ UNCHANGED notSlack
  \/ SendSlackNotification /\ UNCHANGED notSlack
  \/ AbortNotification /\ UNCHANGED notSlack
SpecSlack == InitSlack /\ [][NextSlack]_vars
\* the interpreter runs the script to its end: a step that can be taken is taken
FairSlack == SpecSlack /\ WF_vars(NextSlack)

InitStale == StaleInit /\ SizeIdle /\ SlackIdle /\ MergeIdle /\ LabelsIdle
NextStale ==
  \/ StartRun /\ UNCHANGED notStale
  \/ \E t \in 0..(MaxDays * DayLen) : FetchPulls(t) /\ UNCHANGED notStale
  \/ FetchFails /\ UNCHANGED notStale
  \/ Visit /\ UNCHANGED notStale
  \/ \E ok \in BOOLEAN : PostComment(ok) /\ UNCHANGED notStale
  \/ \E ok \in BOOLEAN : PostLabel(ok) /\ UNCHANGED notStale
  \/ SkipSlack /\ UNCHANGED notStale
  \/ \E ok \in BOOLEAN : PostSlack(ok) /\ UNCHANGED notStale
  \/ RunEnds /\ UNCHANGED notStale
SpecStale == InitStale /\ [][NextStale]_vars

\* two processes of the workflow at once
NextStaleRace ==
  \/ NextStale
  \/ SwitchRun /\ UNCHANGED notStale
InitStaleRace ==
  StaleRaceInit /\ SizeIdle /\ SlackIdle /\ MergeIdle /\ LabelsIdle
SpecStaleRace == InitStaleRace /\ [][NextStaleRace]_vars

InitMerge == MergeInit /\ SizeIdle /\ SlackIdle /\ StaleIdle /\ LabelsIdle
NextMerge ==
  \/ CheckInputs /\ UNCHANGED notMerge
  \/ \E ok \in BOOLEAN : GetLabels(ok) /\ UNCHANGED notMerge
  \/ \E ok \in BOOLEAN : GetReviews(ok) /\ UNCHANGED notMerge
  \/ \E ok \in BOOLEAN : EnableAutoMerge(ok) /\ UNCHANGED notMerge
SpecMerge == InitMerge /\ [][NextMerge]_vars

InitLabels == LabelsInit /\ SizeIdle /\ SlackIdle /\ StaleIdle /\ MergeIdle
NextLabels ==
  \/ ProcessFile /\ UNCHANGED notLabels
  \/ ReturnLabels /\ UNCHANGED notLabels
SpecLabels == InitLabels /\ [][NextLabels]_vars

InitApply == ApplyInit /\ SizeIdle /\ SlackIdle /\ StaleIdle /\ MergeIdle
NextApply ==
  \/ ProcessFile /\ UNCHANGED notLabels
  \/ ReturnLabels /\ UNCHANGED notLabels
  \/ \E ok \in BOOLEAN, failed \in SUBSET labels :
       CreateLabels(ok, failed) /\ UNCHANGED notLabels
  \/ \E ok \in BOOLEAN : GetIssue(ok) /\ UNCHANGED notLabels
  \/ \E ok \in BOOLEAN : SetLabels(ok) /\ UNCHANGED notLabels
  \/ \E label \in OtherLabelNames, add \in BOOLEAN :
       OtherLabeler(label, add) /\ UNCHANGED notLabels
SpecApply == InitApply /\ [][NextApply]_vars

InitAssign == AssignInit /\ SizeIdle /\ SlackIdle /\ StaleIdle /\ MergeIdle
NextAssign ==
  \/ FindCommonAssignees /\ UNCHANGED notLabels
SpecAssign == InitAssign /\ [][NextAssign]_vars

(***************************************************************************)
(* Properties of assign-size-label.py                                      *)
(***************************************************************************)

\* the label of the one entry whose half-open range [min, max) contains n
HalfOpenLabel(n) ==
  LET e == CHOOSE e \in {size_labels[i] : i \in 1..Len(size_labels)} :
             e.min <= n /\ (e.max = INF \/ n < e.max)
  IN  e.label

\* C1: determine_size_label returns, for every count n >= 0, the label of the
\* entry whose half-open range [min, max) contains n (20 -> S, 50 -> M, 1000 -> XXL)
C1_HalfOpenBucket ==
  size_pc = "determined" => size_label = HalfOpenLabel(changed_lines)

\* C2: for every count n >= 0 exactly one entry of size_labels passes the test
\* determine_size_label applies, and the function does not return None
C2_ExactlyOneBucket ==
  size_pc = "determined" =>
    /\ Cardinality(SizeMatches(changed_lines)) = 1
    /\ size_label # None

(***************************************************************************)
(* Properties of slack-notify.py                                           *)
(***************************************************************************)

\* the response shows workflow w completed with success
ShowsSuccess(response, w) ==
  \E check \in response.check_runs :
    check.name = w /\ check.status = "completed" /\ check.conclusion = "success"

\* C3: check_actions_finished has returned True only if the response of its last
\* poll has status 200 and shows, by itself, every required workflow completed
\* with success
C3_TrueOnlyOnOneResponse ==
  actions_finished = True =>
    /\ checks_response.status_code = 200
    /\ \A w \in REQUIRED_WORKFLOWS : ShowsSuccess(checks_response, w)

\* C3 happens: True after more than one poll, with two required workflows
C3_Witness ==
  /\ actions_finished = True
  /\ REQUIRED_WORKFLOWS = WorkflowNames
  /\ fetches > 1

\* what is left to do: decreases with every step of the script
SlackRank ==
  CASE slack_pc = "main" -> max_retries + 3
    [] slack_pc = "loop" -> (max_retries - retries) + 2
    [] slack_pc = "returned" -> 1
    [] OTHER -> 0

\* what holds of the poller in every state
C4_Bounded ==
  /\ fetches <= max_retries
  /\ fetches = retries
  /\ SlackRank >= 0
  /\ slack_pc # "done" => ENABLED NextSlack
  /\ slack_pc \in {"returned", "done"} => actions_finished \in {True, False}
  /\ check_raised => actions_finished = False
  /\ (actions_finished = False /\ ~check_raised) => fetches = max_retries

\* C4: check_actions_finished terminates, and the script with it: there are at
\* most 120 fetches, every iteration (a non-200 response too) consumes a retry,
\* every step brings the script nearer its end and a step is possible until the
\* end; a run in which no fetch showed success returns False after the 120th
\* fetch, and an exception yields False
C4_Terminates ==
  /\ <>(slack_pc = "done")
  /\ []C4_Bounded
  /\ [][SlackRank' < SlackRank]_vars

\* C4 happens: False after 120 fetches, the last of them an error response
C4_Witness ==
  /\ slack_pc = "done"
  /\ actions_finished = False
  /\ ~check_raised
  /\ fetches = max_retries
  /\ checks_response.status_code = 500

\* C5: a Slack POST has happened only if check_actions_finished returned True;
\* when it returned False the process exits with status 1, without a POST
C5_PostOnlyAfterTrue ==
  /\ slack_posts > 0 => actions_finished = True
  /\ actions_finished = False => slack_posts = 0
  /\ (slack_pc = "done" /\ actions_finished = False) => slack_exit = "1"

\* C5 happens: the script ended on a False
C5_Witness ==
  /\ slack_pc = "done"
  /\ actions_finished = False
  /\ slack_exit = "1"

(***************************************************************************)
(* Properties of stale-pr-checker.py                                       *)
(***************************************************************************)

\* the run has made a POST (comment, label or Slack) for the i-th fetched pull request
RequestMadeFor(i) ==
  \E kind \in {"comment", "label", "slack"} :
    <<kind, pull_requests[i].number>> \in run_requests

\* C6 as stated: a run makes no POST for a pull request that it fetched with the
\* 'Notified' or the 'stale' label
C6_NoRequestIfNotifiedOrStale ==
  \A i \in DOMAIN pull_requests :
    pull_requests[i].labels \cap {"Notified", "stale"} # {} => ~RequestMadeFor(i)

\* C6 (amended): a run makes no POST (no comment, no label, no Slack message) for
\* a pull request that it fetched with the 'stale' label, whatever its age
C6_NoRequestIfStale ==
  \A i \in DOMAIN pull_requests :
    "stale" \in pull_requests[i].labels => ~RequestMadeFor(i)

\* C6 happens: the second run has passed, without a request, a pull request old
\* enough that the first run has commented and labelled
C6_Witness ==
  /\ stale_runs = 2
  /\ stale_pc = "ended"
  /\ stale_exit = "0"
  /\ \E i \in DOMAIN pull_requests :
       /\ "stale" \in pull_requests[i].labels
       /\ pr_comments[pull_requests[i].number] = 1
       /\ now - pull_requests[i].created_at >= stale_days * DayLen
       /\ ~RequestMadeFor(i)

\* the loop has dealt with the i-th fetched pull request: it has skipped it, or
\* has sent the first request of notify_pr for it
Passed(i) == i < stale_idx \/ (i = stale_idx /\ stale_pc \in {"label", "slack", "ended"})

\* notify_pr has been called for the i-th fetched pull request in this run
NotifyCalled(i) == <<"comment", pull_requests[i].number>> \in run_requests

\* at least stale_days whole days lie between created_at and now
OldEnough(i) == now - pull_requests[i].created_at >= stale_days * DayLen

\* C7: of the pull requests the loop has dealt with, notify_pr is called for
\* exactly those without the 'stale' label that were created stale_days days ago
\* or earlier; for no other pull request is it called
C7_NotifiedIffOldEnough ==
  \A i \in DOMAIN pull_requests :
    /\ Passed(i) =>
         (NotifyCalled(i) <=> ("stale" \notin pull_requests[i].labels /\ OldEnough(i)))
    /\ ~Passed(i) => ~NotifyCalled(i)

\* C7 happens: a run has notified a pull request created exactly stale_days days
\* ago and has passed over one that is one day younger
C7_Witness ==
  /\ stale_pc = "ended"
  /\ stale_exit = "0"
  /\ \E i, j \in DOMAIN pull_requests :
       /\ "stale" \notin pull_requests[i].labels
       /\ "stale" \notin pull_requests[j].labels
       /\ now - pull_requests[i].created_at = stale_days * DayLen
       /\ now - pull_requests[j].created_at = (stale_days - 1) * DayLen
       /\ NotifyCalled(i)
       /\ ~NotifyCalled(j)

(***************************************************************************)
(* Properties of auto-merge.py                                             *)
(***************************************************************************)

\* C8: a merge request has been made only if repository and PR number are given,
\* the labels do not include 'no-auto-merge' and some review has state
\* 'APPROVED'; with the label present the reviews are never queried
C8_MergeOnlyIfAllowed ==
  /\ merge_requests > 0 =>
       /\ merge_repo \notin {None, ""}
       /\ merge_pr_number \notin {None, ""}
       /\ "no-auto-merge" \notin merge_labels
       /\ \E i \in DOMAIN merge_reviews : merge_reviews[i] = "APPROVED"
  /\ "no-auto-merge" \in merge_labels => ~reviews_queried
  /\ (merge_repo \in {None, ""} \/ merge_pr_number \in {None, ""}) =>
       ~labels_queried /\ ~reviews_queried

\* C8 happens: a pull request with an approving and another review has been merged
C8_Witness ==
  /\ merge_pc = "done"
  /\ merge_requests = 1
  /\ merge_exit = "0"
  /\ \E i \in DOMAIN merge_reviews : merge_reviews[i] # "APPROVED"

(***************************************************************************)
(* Properties of assign-labels.py                                          *)
(***************************************************************************)

\* the labels of the entries of filters.yml one of whose patterns matches the file
MatchingLabels(file) ==
  {filter_data[i].label : i \in {j \in DOMAIN filter_data :
     \E k \in DOMAIN filter_data[j].patterns : fnmatch(file, filter_data[j].patterns[k])}}

\* the file is the path or lies in the directory the path names
IsUnder(file, path) ==
  \/ file = path
  \/ /\ Len(file) > Len(path)
     /\ SubSeq(file, 1, Len(path)) = path
     /\ file[Len(path) + 1] = "/"

\* C9: a changed file that process_files handles, that matches a pattern of
\* filters.yml and lies under a CODEOWNERS path, yields a label of filters.yml
\* whose pattern it matches; that label is then the whole result, and a CODEOWNERS
\* path the file lies under is not in the result (unless filters.yml gives the
\* file a label of that very name)
C9_FilterBeatsOwners ==
  \A k \in DOMAIN yielded :
    LET file == changed_files[k]
    IN  (MatchingLabels(file) # {} /\ \E path \in valid_labels : IsUnder(file, path)) =>
          /\ yielded[k].from = "filters"
          /\ yielded[k].label # <<>>
          /\ yielded[k].label[1] \in MatchingLabels(file)
          /\ labels = {yielded[k].label[1]}
          /\ \A path \in valid_labels :
               (IsUnder(file, path) /\ path \notin MatchingLabels(file)) => path \notin labels

\* C9 happens: the second file matches a pattern and lies under two CODEOWNERS
\* paths, after a first file that yielded a CODEOWNERS path
C9_Witness ==
  /\ labels_pc = "returned"
  /\ Len(yielded) = 2
  /\ yielded[1].from = "CODEOWNERS"
  /\ yielded[1].label # <<>>
  /\ MatchingLabels(changed_files[2]) # {}
  /\ \E p1, p2 \in valid_labels :
       /\ p1 # p2
       /\ IsUnder(changed_files[2], p1)
       /\ IsUnder(changed_files[2], p2)
       /\ p1 \notin labels
       /\ p2 \notin labels

\* the handles of the mapping, each without its leading @
MappedHandles ==
  UNION {{Tail(assignees_map[path][k]) : k \in DOMAIN assignees_map[path]} :
           path \in DOMAIN assignees_map}

\* the per-file sets of assignees
PerFileAssignees ==
  {get_assignees_for_path(changed_files[k], assignees_map) : k \in DOMAIN changed_files}

\* the handles that every changed file has
CommonToAll == {h \in UNION PerFileAssignees : \A set \in PerFileAssignees : h \in set}

\* C10: for a non-empty list of changed files find_common_assignees returns the
\* intersection of the per-file assignee sets when it is not empty, and else the
\* union of all the assignees of the mapping
C10_IntersectionOrAll ==
  (labels_pc = "found" /\ changed_files # <<>>) =>
    common_assignees = IF CommonToAll # {} THEN CommonToAll ELSE MappedHandles

\* C10 happens: files owned by {A, B} and {B, C} give {B}
C10_Witness ==
  /\ labels_pc = "found"
  /\ Len(changed_files) = 2
  /\ get_assignees_for_path(changed_files[1], assignees_map) = {<<"A">>, <<"B">>}
  /\ get_assignees_for_path(changed_files[2], assignees_map) = {<<"B">>, <<"C">>}
  /\ common_assignees = {<<"B">>}

(***************************************************************************)
(* Properties: the run of the size labeler                                 *)
(***************************************************************************)

\* the list of changed files summed without the recursion of the model
TotalOf(files) ==
  LET n == Len(files)
      a(i) == IF i <= n THEN files[i].additions + files[i].deletions ELSE 0
  IN a(1) + a(2) + a(3)

\* C11: after a run of the size labeler that ends with status 0 the pull
\* request carries exactly one size label, the one determine_size_label
\* returns for the sum of the additions and deletions of the changed files,
\* and its labels that are not size labels are those it had before the run.
C11_OneSizeLabelAfterRun ==
  (size_pc = "done" /\ size_exit = "0") =>
    /\ size_pr_labels \cap SizeNames = {determine_size_label(TotalOf(size_files))}
    /\ size_pr_labels \ SizeNames = size_pr_labels0 \ SizeNames

\* a run that removed two differing size labels, created the label in the
\* repository and added it, on a pull request that also carries another label
C11_Witness ==
  /\ size_pc = "done" /\ size_exit = "0"
  /\ size_pr_labels0 = {"XS", "XXL", "bug"}
  /\ size_pr_labels = {"S", "bug"}
  /\ size_repo_labels["S"] = SizeColor("S")

(***************************************************************************)
(* Properties: missing configuration                                       *)
(***************************************************************************)

\* C12: missing configuration is fatal; for the auto-merger: a run that finds
\* the repository or the PR number absent makes no request and ends with a
\* status other than 0.
C12_MissingConfigFatal ==
  (merge_pc = "done" /\ (~Truthy(merge_repo) \/ ~Truthy(merge_pr_number))) =>
    /\ ~labels_queried /\ ~reviews_queried /\ merge_requests = 0
    /\ merge_exit # "0"

(***************************************************************************)
(* Properties: stale comments over several runs                            *)
(***************************************************************************)

\* C13: over the runs of the checker, one after the other and some of them ended
\* by an HTTP error, no pull request has more than one stale comment.
C13_AtMostOneComment == \A n \in DOMAIN pr_comments : pr_comments[n] <= 1

\* C14: a pull request has two stale comments only if two runs overlapped or a
\* run was ended by an HTTP error; runs that follow one another and all complete
\* leave at most one.
C14_TwoCommentsOnlyByRaceOrFailure ==
  \A n \in DOMAIN pr_comments :
    pr_comments[n] >= 2 => (overlapped \/ failed_runs > 0)

\* C14 happens: two overlapping runs, neither of which failed, have both ended
\* with status 0 and have left two comments on a pull request that has the label
C14_Witness ==
  /\ overlapped
  /\ failed_runs = 0
  /\ stale_pc = "ended" /\ stale_exit = "0"
  /\ parked.stale_pc = "ended" /\ parked.stale_exit = "0"
  /\ \E n \in DOMAIN pr_comments :
       /\ pr_comments[n] = 2
       /\ "stale" \in pr_labels[n]
       /\ <<"comment", n>> \in run_requests \cap parked.run_requests

\* C15: within a run the label POST for a pull request comes after its comment
\* POST has succeeded and the Slack POST after its label POST has succeeded; a
\* pull request alerted on Slack carries the label and a comment.
C15_CommentThenLabelThenSlack ==
  \A n \in DOMAIN pr_comments :
    /\ <<"label", n>> \in run_requests =>
         <<"comment", n>> \in run_requests /\ pr_comments[n] >= 1
    /\ <<"slack", n>> \in run_requests =>
         <<"label", n>> \in run_requests /\ "stale" \in pr_labels[n]
    /\ pr_alerts[n] >= 1 => "stale" \in pr_labels[n] /\ pr_comments[n] >= 1

\* C15 happens: a run has commented, labelled and alerted for a pull request
\* that had no label before
C15_Witness ==
  \E i \in DOMAIN pull_requests :
    /\ "stale" \notin pull_requests[i].labels
    /\ {<<"comment", i>>, <<"label", i>>, <<"slack", i>>} \subseteq run_requests
    /\ pull_requests[i].number = i
    /\ pr_comments[i] = 1 /\ "stale" \in pr_labels[i] /\ pr_alerts[i] = 1

\* notify_pr and send_slack_notification have run to their end for the i-th
\* fetched pull request
EffectsKept(i) ==
  LET n == pull_requests[i].number IN
    /\ pr_comments[n] >= 1
    /\ "stale" \in pr_labels[n]
    /\ slack_webhook_url => pr_alerts[n] >= 1

\* C16: when a request for a pull request has failed, the run has ended with
\* status 1 at that pull request, no request has been made for any pull request
\* later in the list, and the pull requests notified earlier keep their comment,
\* label and alert.
C16_ErrorEndsRun ==
  (run_failure # <<>> /\ run_failure[1] # "pulls") =>
    /\ stale_pc = "ended" /\ stale_exit = "1"
    /\ stale_idx \in DOMAIN pull_requests
    /\ pull_requests[stale_idx].number = run_failure[2]
    /\ \A i \in DOMAIN pull_requests :
         /\ i > stale_idx => ~RequestMadeFor(i)
         /\ (i < stale_idx /\ NotifyCalled(i)) => EffectsKept(i)

\* C16 happens: the label POST for the first pull request has failed after the
\* run has notified nobody, and the second, as old and also without the label,
\* has no comment
C16_Witness ==
  /\ run_failure = <<"label", 1>>
  /\ stale_idx = 1
  /\ pr_comments[1] = 1
  /\ "stale" \notin pull_requests[2].labels
  /\ OldEnough(2)
  /\ pr_comments[2] = 0 /\ "stale" \notin pr_labels[2]

(***************************************************************************)
(* Properties: the labels process_files returns                            *)
(***************************************************************************)

\* the places in the list of the changed files that match a pattern of filters.yml
MatchingFiles == {k \in DOMAIN changed_files : MatchingLabels(changed_files[k]) # {}}

\* the places in filters.yml of the entries one of whose patterns matches the file
MatchingEntries(file) ==
  {i \in DOMAIN filter_data :
     \E k \in DOMAIN filter_data[i].patterns : fnmatch(file, filter_data[i].patterns[k])}

\* C17: when some changed file matches a pattern of filters.yml, process_files
\* returns exactly one label: that of the first entry of filters.yml matching
\* the first such file; labels gathered from CODEOWNERS for earlier files are
\* not in the result and no file after that one is processed.
C17_FirstFilterMatchOnly ==
  (labels_pc = "returned" /\ MatchingFiles # {}) =>
    LET k == Least(MatchingFiles)
        i == Least(MatchingEntries(changed_files[k]))
    IN  /\ labels = {filter_data[i].label}
        /\ Len(yielded) = k
        /\ \A j \in 1..(k - 1) : yielded[j].from = "CODEOWNERS"

\* C17 happens: the first file gave a CODEOWNERS path, the second matches both
\* entries of filters.yml, and the result is the label of the first entry alone
C17_Witness ==
  /\ labels_pc = "returned"
  /\ Len(changed_files) = 2
  /\ MatchingFiles = {2}
  /\ MatchingEntries(changed_files[2]) = {1, 2}
  /\ yielded[1].label # <<>>
  /\ labels = {filter_data[1].label}
  /\ yielded[1].label[1] \notin labels

\* the CODEOWNERS paths the file lies under
OwnerPathsOver(file) == {path \in valid_labels : IsUnder(file, path)}

\* the longest of them, or None
LongestOwnerPath(file) ==
  IF OwnerPathsOver(file) = {} THEN <<>>
  ELSE <<CHOOSE path \in OwnerPathsOver(file) :
           \A other \in OwnerPathsOver(file) : Len(other) <= Len(path)>>

\* C19: a file that process_files handles and that matches no pattern of
\* filters.yml gives the longest CODEOWNERS path it lies under and nothing if
\* it lies under none; as long as no file has matched a pattern the labels
\* are these paths, one a file at most.
C19_LongestOwnerPathPerFile ==
  /\ \A k \in DOMAIN yielded :
       MatchingLabels(changed_files[k]) = {} =>
         /\ yielded[k].from = "CODEOWNERS"
         /\ yielded[k].label = LongestOwnerPath(changed_files[k])
  /\ (\A k \in DOMAIN yielded : yielded[k].from = "CODEOWNERS") =>
       labels = {yielded[k].label[1] : k \in {j \in DOMAIN yielded : yielded[j].label # <<>>}}

\* C19 happens: a file under two CODEOWNERS paths, one inside the other, has
\* given the inner one, and a file under no path has given nothing
C19_Witness ==
  /\ labels_pc = "returned"
  /\ Len(yielded) = 2
  /\ MatchingFiles = {}
  /\ \E k \in DOMAIN yielded :
       /\ Cardinality(OwnerPathsOver(changed_files[k])) = 2
       /\ labels = {yielded[k].label[1]}
       /\ \E path \in OwnerPathsOver(changed_files[k]) : path \notin labels
  /\ \E k \in DOMAIN yielded : yielded[k].label = <<>>

(***************************************************************************)
(* Properties: the owners of a path                                        *)
(***************************************************************************)

\* the owners of an entry, each without its leading @
WithoutAt(owners) ==
  {IF owners[k][1] = "@" THEN Tail(owners[k]) ELSE owners[k] : k \in DOMAIN owners}

\* the paths of the mapping that are the file or a directory above it
MapPathsOver(file) == {path \in DOMAIN assignees_map : IsUnder(file, path)}

\* the owners of the most specific entry for the file
MostSpecificOwners(file) ==
  IF MapPathsOver(file) # {}
    THEN WithoutAt(assignees_map[CHOOSE path \in MapPathsOver(file) :
                     \A other \in MapPathsOver(file) : Len(other) <= Len(path)])
  ELSE IF <<"*">> \in DOMAIN assignees_map THEN WithoutAt(assignees_map[<<"*">>])
  ELSE {}

\* C18: every call of get_assignees_for_path returns the owners, without the
\* leading @, of the entry for the path itself, else of the entry for its
\* longest prefix in whole segments, else of the entry '*', else the empty set:
\* never those of a less specific entry when a more specific one exists.
C18_MostSpecificEntry ==
  labels_pc = "found" =>
    \A k \in DOMAIN path_assignees :
      path_assignees[k] = MostSpecificOwners(changed_files[k])

\* C18 happens: with different owners for s, s/t and '*', the file s/t/x got
\* the owners of s/t and a file under no entry those of '*'
C18_Witness ==
  /\ labels_pc = "found"
  /\ Len(path_assignees) = 2
  /\ {<<"s">>, <<"s", "/", "t">>, <<"*">>} \subseteq DOMAIN assignees_map
  /\ assignees_map[<<"s">>] # assignees_map[<<"s", "/", "t">>]
  /\ assignees_map[<<"*">>] # assignees_map[<<"s", "/", "t">>]
  /\ assignees_map[<<"*">>] # assignees_map[<<"s">>]
  /\ \E k, j \in DOMAIN path_assignees :
       /\ changed_files[k] = <<"s", "/", "t", "/", "x">>
       /\ path_assignees[k] = WithoutAt(assignees_map[<<"s", "/", "t">>])
       /\ MapPathsOver(changed_files[j]) = {}
       /\ path_assignees[j] = WithoutAt(assignees_map[<<"*">>])

(***************************************************************************)
(* Properties: no required workflows                                       *)
(***************************************************************************)

\* workflows.json is missing, is not JSON or lists no workflow
NothingRequired ==
  \/ workflows_json.state \in {"missing", "malformed"}
  \/ workflows_json.required_workflows = {}

\* C20: when workflows.json is missing, malformed or without entries,
\* REQUIRED_WORKFLOWS is empty and check_actions_finished returns True on the
\* first response with status 200, whatever check runs it shows; the script
\* then sends the Slack notification and ends with status 0.
C20_EmptyRequiredNotifiesAtOnce ==
  NothingRequired =>
    /\ REQUIRED_WORKFLOWS = {}
    /\ checks_response.status_code = 200 =>
         /\ actions_finished = True
         /\ slack_pc \in {"returned", "done"}
         /\ slack_pc = "done" => (slack_posts = 1 /\ slack_exit = "0")
    /\ actions_finished = True => checks_response.status_code = 200

\* C20 happens: without workflows.json the notification has gone out on a
\* response, the first with status 200, that shows a failed and an unfinished run
C20_Witness ==
  /\ workflows_json.state = "missing"
  /\ slack_pc = "done"
  /\ slack_posts = 1
  /\ fetches = 2
  /\ checks_response.status_code = 200
  /\ \E failed, unfinished \in checks_response.check_runs :
       /\ failed.conclusion = "failure"
       /\ unfinished.status = "in_progress"

(***************************************************************************)
(* Properties: apply_labels                                                *)
(***************************************************************************)

\* when nobody else has touched the labels, the pull request carries after
\* apply_labels the labels it had before the run and the resolved ones
C21_UnionAfterCall ==
  (labels_pc = "labelled" /\ labels # {} /\ other_changes = 0) =>
    issue_labels = issue_labels0 \cup labels

\* the step of set_labels that succeeds leaves on the pull request the labels
\* apply_labels read and the resolved ones
C21_SetLabelsStep ==
  (labels_pc = "set_labels" /\ labels_pc' = "labelled") =>
    /\ issue_labels' = current_labels \cup labels
    /\ current_labels \subseteq issue_labels'

\* C21: apply_labels never removes a label: after a successful call the labels
\* of the pull request are the union of the labels it had before the call and
\* the resolved labels, so every label it had before the call is still there.
C21_ApplyNeverRemoves == []C21_UnionAfterCall /\ [][C21_SetLabelsStep]_vars

\* C21 happens: a pull request that carried s and bug has got s and d resolved
\* and carries bug, d and s
C21_Witness ==
  /\ labels_pc = "labelled"
  /\ other_changes = 0
  /\ issue_labels0 = {<<"s">>, <<"b", "u", "g">>}
  /\ labels = {<<"s">>, <<"d">>}
  /\ issue_labels = {<<"s">>, <<"d">>, <<"b", "u", "g">>}

====
